---- MODULE Spec2Model ----
(***************************************************************************)
(* Ristretto quantization driver (src/caffe/ristretto/quantization.cpp).   *)
(*                                                                         *)
(* One Quantization object is modelled together with the two things it     *)
(* talks to: the file at model_quantized_ and the inference engine         *)
(* (Net<float>).  QuantizeNet is cut into its sequential steps; pc is the  *)
(* position of the single thread inside it.  Real numbers are fixed-point  *)
(* naturals in units of 1e-8 (Scale units make 1.0), so that the 1e-8      *)
(* guard of the integer-length formula is exactly one unit.  A float       *)
(* quotient a / b is kept as the pair [num |-> a, den |-> b].              *)
(***************************************************************************)
EXTENDS Integers, Sequences, FiniteSets, TLC

VARIABLES
  model_,                 \* constructor argument: which network description file
  iterations_,            \* constructor argument
  trimming_mode_,         \* constructor argument
  bitwidth_weights_,      \* constructor argument
  bitwidth_activations_,  \* constructor argument
  layer_names_, max_in_, max_out_, max_params_,   \* filled by RangeInLayers
  il_in_, il_out_, il_params_,                    \* integer lengths
  test_score_baseline_,
  bw_conv_params_, bw_fc_params_, bw_in_, bw_out_,
  pc,                     \* position inside QuantizeNet
  runs,                   \* completed QuantizeNet calls on this object
  fatal_msg,              \* message of the LOG(FATAL) that ended the process
  accuracy,               \* the caller's local `float accuracy`
  net,                    \* the live Net<float> (net_val / net_test)
  param,                  \* the local NetParameter of Quantize2DynamicFixedPoint
  test_bw_conv_params, test_scores_conv_params,
  test_bw_fc_params, test_scores_fc_params,
  test_bw_layer_activations, test_scores_layer_activations,
  pass,                   \* which call site of RunForwardBatches is active
  i,                      \* loop counter of RunForwardBatches
  test_score,             \* local accumulator of RunForwardBatches
  results,                \* what Forward returned, batch by batch, in this call
  evaluated,              \* the passes whose RunForwardBatches has returned, this run
  engine,                 \* what the inference engine was asked to do, this run
  out_file,               \* the file at model_quantized_
  path_ops,               \* operations performed on model_quantized_, this run
  path_writable,          \* whether an ofstream on model_quantized_ opens
  int_of_minus_inf        \* what (int)(-inf) yields on this build: undefined

vars == << model_, iterations_, trimming_mode_, bitwidth_weights_,
           bitwidth_activations_, layer_names_, max_in_, max_out_, max_params_,
           il_in_, il_out_, il_params_, test_score_baseline_, bw_conv_params_,
           bw_fc_params_, bw_in_, bw_out_, pc, runs, fatal_msg, accuracy, net,
           param, test_bw_conv_params, test_scores_conv_params,
           test_bw_fc_params, test_scores_fc_params, test_bw_layer_activations,
           test_scores_layer_activations, pass, i, test_score, results,
           evaluated, engine, out_file, path_ops, path_writable,
           int_of_minus_inf >>

config_vars == << model_, iterations_, trimming_mode_, bitwidth_weights_,
                  bitwidth_activations_, path_writable, int_of_minus_inf >>
stats_vars == << layer_names_, max_in_, max_out_, max_params_ >>
il_vars == << il_in_, il_out_, il_params_ >>
bw_vars == << bw_conv_params_, bw_fc_params_, bw_in_, bw_out_ >>
search_vars == << test_bw_conv_params, test_scores_conv_params,
                  test_bw_fc_params, test_scores_fc_params,
                  test_bw_layer_activations, test_scores_layer_activations >>
forward_vars == << pass, i, test_score, results >>
file_vars == << out_file, path_ops >>

----------------------------------------------------------------------------
(* Bounds of the model.                                                    *)

MaxIterations == 2
MaxRuns == 2

(* Units per 1.0: the 1e-8 of the integer-length formula is one unit.      *)
Scale == 100000000
Eps == 1

(* The value of score_number when a call site leaves it out, as all do: a  *)
(* position in the flattened outputs (0-based as in the code).             *)
score_number == 0

(* The sentinel the call sites pass for a bit-width that is not used.      *)
NoBitwidth == -1

Max(a, b) == IF a >= b THEN a ELSE b

RECURSIVE Pow2(_)
Pow2(n) == IF n <= 0 THEN 1 ELSE 2 * Pow2(n - 1)

RECURSIVE SumSeq(_)
SumSeq(s) == IF s = << >> THEN 0 ELSE Head(s) + SumSeq(Tail(s))

----------------------------------------------------------------------------
(* Strings.  string::find(needle) != npos, tabulated for the haystacks     *)
(* that occur: layer types, layers_2_quantize and net_part arguments.      *)

Substrings(hay) ==
  CASE hay = "Convolution"                  -> {"Convolution"}
    [] hay = "ConvolutionRistretto"         -> {"Convolution"}
    [] hay = "InnerProduct"                 -> {"InnerProduct"}
    [] hay = "FcRistretto"                  -> {"FcRistretto"}
    [] hay = "Convolution_and_InnerProduct" -> {"Convolution", "InnerProduct"}
    [] hay = "Parameters"                   -> {"Parameters"}
    [] hay = "Activations"                  -> {"Activations"}
    [] hay = "Parameters_and_Activations"   -> {"Parameters", "Activations"}
    [] OTHER                                -> {}

Found(hay, needle) == needle \in Substrings(hay)

----------------------------------------------------------------------------
(* Network descriptions: a sequence of layers, each with a name, a type    *)
(* and a quantization_param whose fields are set or unset.                 *)

NoQuantization ==
  [has |-> {}, fl_params |-> 0, bw_params |-> 0, fl_layer_in |-> 0,
   bw_layer_in |-> 0, fl_layer_out |-> 0, bw_layer_out |-> 0]

Layer(n, t) == [name |-> n, type |-> t, quantization_param |-> NoQuantization]

(* The descriptions the file model_ can hold.                              *)
Models == {"lenet", "mlp"}

ModelFile(m) ==
  IF m = "lenet"
    THEN << Layer("conv1", "Convolution"), Layer("pool1", "Pooling"),
            Layer("ip1", "InnerProduct") >>
    ELSE << Layer("ip1", "InnerProduct"), Layer("relu1", "ReLU") >>

(* caffe::ReadNetParamsFromTextFileOrDie(model_, &param): param is        *)
(* replaced by the parsed file.                                            *)
ReadNetParamsFromTextFileOrDie(m, old_param) == ModelFile(m)

TrimmingModes == {"dynamic_fixed_point", "minifloat"}
Bitwidths == {4, 8}

----------------------------------------------------------------------------
(* The inference engine, at its boundary.                                  *)

(* Forward returns the flattened output scores of one batch.               *)
ForwardResults == {<< 0, 1 >>, << 1, 0 >>}

(* Extrema one layer can show in one batch: <<max_in, max_out, max_param>>. *)
Extrema ==
  { [in |-> 0, out |-> 0, params |-> 0],
    [in |-> 300000000, out |-> 40000000, params |-> 200000000] }

(* The layers that get a statistics entry: the quantizable ones.           *)
Quantizable(layer) == layer.type \in {"Convolution", "InnerProduct"}

RECURSIVE QuantizableNames(_)
QuantizableNames(desc) ==
  IF desc = << >> THEN << >>
  ELSE IF Quantizable(Head(desc))
    THEN << Head(desc).name >> \o QuantizableNames(Tail(desc))
    ELSE QuantizableNames(Tail(desc))

(* Net::RangeInLayers(&layer_names_, &max_in_, &max_out_, &max_params_):   *)
(* the first call creates one zero entry per quantizable layer; every call *)
(* raises each running maximum to what was seen (seen[k] for entry k).     *)
RangeInLayers(desc, names, maxes, seen, field) ==
  LET fresh == QuantizableNames(desc)
      base  == IF names = << >> THEN [k \in 1..Len(fresh) |-> 0] ELSE maxes
  IN [k \in 1..Len(base) |-> Max(base[k], seen[k][field])]

RangeInLayersNames(desc, names) ==
  IF names = << >> THEN QuantizableNames(desc) ELSE names

----------------------------------------------------------------------------
(* Integer lengths (Quantize2DynamicFixedPoint, lines 156-160).            *)

(* x <= 2^n, for x > 0 in units of 1e-8 and any integer n.                 *)
LeqPow2(x, n) ==
  IF n >= 0 THEN (x + Pow2(n) - 1) \div Pow2(n) <= Scale
            ELSE x <= Scale \div Pow2(-n)

RECURSIVE CeilLog2Up(_, _)
CeilLog2Up(x, n) == IF LeqPow2(x, n) THEN n ELSE CeilLog2Up(x, n + 1)

RECURSIVE CeilLog2Down(_, _)
CeilLog2Down(x, n) == IF LeqPow2(x, n - 1) THEN CeilLog2Down(x, n - 1) ELSE n

(* ceil(log2(x)) for x > 0.                                                *)
CeilLog2(x) == IF LeqPow2(x, 0) THEN CeilLog2Down(x, 0) ELSE CeilLog2Up(x, 1)

(* x is exactly 2^n.                                                       *)
IsPow2(x, n) ==
  IF n >= 0 THEN x = Pow2(n) * Scale
            ELSE Scale % Pow2(-n) = 0 /\ x = Scale \div Pow2(-n)

(* (int)ceil(log2(max + 1e-8 + 1)), lines 157 and 158.                     *)
IntegerLengthActivation(max) == CeilLog2(max + Eps + Scale)

(* ceil(log2(max) + 1e-8 + 1), line 159, for max > 0: the 1e-8 and the 1   *)
(* are added to the logarithm.  log2 of a float is either an integer or    *)
(* further than 1e-8 from the next one, so the sum rounds up to            *)
(* ceil(log2 max) + 1, and to one more when max is a power of two.         *)
CeilLog2PlusEpsPlusOne(max) ==
  LET c == CeilLog2(max) IN IF IsPow2(max, c) THEN c + 2 ELSE c + 1

(* What a conversion of an out-of-range double to int, or a read past the  *)
(* end of a vector, can deliver.                                           *)
IndeterminateInts == {-7, 11}

(* (int)ceil(log2(max_params_[i]) + 1e-8 + 1), line 159: for max = 0 the   *)
(* logarithm is -inf and the conversion to int is undefined.               *)
IntegerLengthParams(max) ==
  IF max = 0 THEN int_of_minus_inf ELSE CeilLog2PlusEpsPlusOne(max)

----------------------------------------------------------------------------
(* Integer-length lookups (lines 314-330).                                 *)

(* find(names.begin(), names.end(), name) - names.begin(), 0-based.        *)
RECURSIVE Find(_, _)
Find(names, name) ==
  IF names = << >> \/ Head(names) = name THEN 0
  ELSE 1 + Find(Tail(names), name)

(* il[pos] with no range check: past the end of il the read is undefined   *)
(* and delivers oob.                                                       *)
ReadAt(il, pos, oob) == IF pos < Len(il) THEN il[pos + 1] ELSE oob

GetIntegerLengthParams(layer_name, oob) ==
  ReadAt(il_params_, Find(layer_names_, layer_name), oob)

GetIntegerLengthIn(layer_name, oob) ==
  ReadAt(il_in_, Find(layer_names_, layer_name), oob)

GetIntegerLengthOut(layer_name, oob) ==
  ReadAt(il_out_, Find(layer_names_, layer_name), oob)

----------------------------------------------------------------------------
(* EditNetDescriptionDynamicFixedPoint (lines 260-312).                    *)

(* set_type, set_fl_params, set_bw_params (lines 270-273, 294-297).        *)
QuantizeParameters(layer, new_type, bw, oob) ==
  [layer EXCEPT
     !.type = new_type,
     !.quantization_param =
        [@ EXCEPT !.has = @ \cup {"fl_params", "bw_params"},
                  !.fl_params = bw - GetIntegerLengthParams(layer.name, oob.params),
                  !.bw_params = bw]]

(* set_type, set_fl_layer_in/out, set_bw_layer_in/out (lines 277-284,      *)
(* 301-308).                                                               *)
QuantizeActivations(layer, new_type, bw_in, bw_out, oob) ==
  [layer EXCEPT
     !.type = new_type,
     !.quantization_param =
        [@ EXCEPT !.has = @ \cup {"fl_layer_in", "bw_layer_in",
                                  "fl_layer_out", "bw_layer_out"},
                  !.fl_layer_in = bw_in - GetIntegerLengthIn(layer.name, oob.in),
                  !.bw_layer_in = bw_in,
                  !.fl_layer_out = bw_out - GetIntegerLengthOut(layer.name, oob.out),
                  !.bw_layer_out = bw_out]]

(* The two conditions of the loop body (lines 265-266 and 288-290).        *)
IsInnerProductToQuantize_AnyCategory(layers_2_quantize, layer) ==
  Found(layer.type, "InnerProduct") \/ Found(layer.type, "FcRistretto")

IsConvolutionToQuantize(layers_2_quantize, layer) ==
  Found(layers_2_quantize, "Convolution") /\ Found(layer.type, "Convolution")

IsInnerProductToQuantize(layers_2_quantize, layer) ==
  /\ Found(layers_2_quantize, "InnerProduct")
  /\ (Found(layer.type, "InnerProduct") \/ Found(layer.type, "FcRistretto"))

(* One pass of the loop body over one layer.                               *)
EditLayer(layer, layers_2_quantize, net_part, bw_conv, bw_fc, bw_in, bw_out, oob) ==
  LET c1 == IF /\ IsConvolutionToQuantize(layers_2_quantize, layer)
               /\ Found(net_part, "Parameters")
              THEN QuantizeParameters(layer, "ConvolutionRistretto", bw_conv, oob)
              ELSE layer
      c2 == IF /\ IsConvolutionToQuantize(layers_2_quantize, layer)
               /\ Found(net_part, "Activations")
              THEN QuantizeActivations(c1, "ConvolutionRistretto", bw_in, bw_out, oob)
              ELSE c1
      f1 == IF /\ IsInnerProductToQuantize(layers_2_quantize, c2)
               /\ Found(net_part, "Parameters")
              THEN QuantizeParameters(c2, "FcRistretto", bw_fc, oob)
              ELSE c2
      f2 == IF /\ IsInnerProductToQuantize(layers_2_quantize, c2)
               /\ Found(net_part, "Activations")
              THEN QuantizeActivations(f1, "FcRistretto", bw_in, bw_out, oob)
              ELSE f1
  IN f2

(* oob[k] is what the out-of-range reads for layer k deliver.              *)
EditNetDescriptionDynamicFixedPoint(p, layers_2_quantize, net_part, bw_conv, bw_fc, bw_in, bw_out, oob) ==
  [k \in 1..Len(p) |->
     EditLayer(p[k], layers_2_quantize, net_part, bw_conv, bw_fc, bw_in,
               bw_out, oob[k])]

(* Layer k of p makes a lookup read past the end of the integer lengths.   *)
ReadsOutOfRange(p, layers_2_quantize, k) ==
  /\ \/ IsConvolutionToQuantize(layers_2_quantize, p[k])
     \/ IsInnerProductToQuantize(layers_2_quantize, p[k])
  /\ Find(layer_names_, p[k].name) >= Len(il_params_)

NoOob == [params |-> 0, in |-> 0, out |-> 0]

OobValues == [params : IndeterminateInts, in : IndeterminateInts,
              out : IndeterminateInts]

(* The outcomes of the out-of-range reads of one edit of p.                *)
OobChoices(p, layers_2_quantize) ==
  LET reading == {k \in 1..Len(p) : ReadsOutOfRange(p, layers_2_quantize, k)}
  IN { [k \in 1..Len(p) |-> IF k \in reading THEN f[k] ELSE NoOob] :
         f \in [reading -> OobValues] }

----------------------------------------------------------------------------
(* State after construction (lines 15-30) and the environment it meets.    *)

NoNet == [loaded |-> FALSE, desc |-> << >>]
NoAccuracy == [known |-> FALSE, num |-> 0, den |-> 1]
NoEngine == [loads |-> 0, forwards |-> 0, range_calls |-> 0]
Absent == [state |-> "absent", content |-> << >>]
Preexisting == [state |-> "preexisting", content |-> << >>]

Init ==
  /\ model_ \in Models
  /\ iterations_ \in 0..MaxIterations
  /\ trimming_mode_ \in TrimmingModes
  /\ bitwidth_weights_ \in Bitwidths
  /\ bitwidth_activations_ = 8
  /\ path_writable \in BOOLEAN
  /\ int_of_minus_inf \in IndeterminateInts
  /\ out_file \in {Absent, Preexisting}
  /\ layer_names_ = << >> /\ max_in_ = << >> /\ max_out_ = << >>
  /\ max_params_ = << >>
  /\ il_in_ = << >> /\ il_out_ = << >> /\ il_params_ = << >>
  /\ test_score_baseline_ = NoAccuracy
  /\ bw_conv_params_ = 0 /\ bw_fc_params_ = 0 /\ bw_in_ = 0 /\ bw_out_ = 0
  /\ pc = "idle" /\ runs = 0 /\ fatal_msg = ""
  /\ accuracy = NoAccuracy /\ net = NoNet /\ param = << >>
  /\ test_bw_conv_params = << >> /\ test_scores_conv_params = << >>
  /\ test_bw_fc_params = << >> /\ test_scores_fc_params = << >>
  /\ test_bw_layer_activations = << >> /\ test_scores_layer_activations = << >>
  /\ pass = "none" /\ i = 0 /\ test_score = << >> /\ results = << >>
  /\ evaluated = << >> /\ engine = NoEngine /\ path_ops = << >>

----------------------------------------------------------------------------
(* QuantizeNet (lines 32-51).                                              *)

(* CheckWritePermissions (lines 53-61): the probe creates the file (or     *)
(* truncates the one that is there) and removes it again.                  *)
CheckWritePermissions ==
  /\ pc = "idle" /\ runs < MaxRuns
  /\ evaluated' = << >> /\ engine' = NoEngine
  /\ IF path_writable
       THEN /\ out_file' = Absent
            /\ path_ops' = << "create", "remove" >>
            /\ pc' = "load" /\ fatal_msg' = fatal_msg
       ELSE /\ out_file' = out_file
            /\ path_ops' = << >>
            /\ pc' = "fatal" /\ fatal_msg' = "Missing write permissions"
  /\ UNCHANGED << config_vars, stats_vars, il_vars, test_score_baseline_,
                  bw_vars, runs, accuracy, net, param, search_vars,
                  forward_vars >>

(* The entry of RunForwardBatches (lines 100-103) from call site p.        *)
EnterRunForwardBatches(p) ==
  /\ pass' = p /\ i' = 0 /\ test_score' = << >> /\ results' = << >>
  /\ pc' = "forward"

(* The locals of RunForwardBatches are gone once the caller goes on.       *)
LeaveRunForwardBatches ==
  pass' = "none" /\ i' = 0 /\ test_score' = << >> /\ results' = << >>

(* new Net<float>(...) and CopyTrainedLayersFrom(weights_).                *)
LoadNet(desc) ==
  /\ net' = [loaded |-> TRUE, desc |-> desc]
  /\ engine' = [engine EXCEPT !.loads = @ + 1]

(* Lines 37-42: the reference network, then the statistics pass.           *)
LoadReferenceNet ==
  /\ pc = "load"
  /\ LoadNet(ModelFile(model_))
  /\ EnterRunForwardBatches("baseline")
  /\ UNCHANGED << config_vars, stats_vars, il_vars, test_score_baseline_,
                  bw_vars, runs, fatal_msg, accuracy, param, search_vars,
                  evaluated, file_vars >>

----------------------------------------------------------------------------
(* RunForwardBatches (lines 96-149).                                       *)

(* The value of do_stats when a call site leaves it out.                   *)
DefaultDoStats == FALSE

(* The do_stats argument at each call site: line 42 passes true, lines     *)
(* 182, 197, 213 and 232 leave it out.                                     *)
DoStats_Always(p) == TRUE

DoStats(p) == IF p = "baseline" THEN TRUE ELSE DefaultDoStats

(* Lines 116-131: the first batch appends its scores, later batches add    *)
(* theirs at the same positions.                                           *)
AccumulateScores_Overwrite(scores, batch, result) ==
  IF batch = 0 THEN scores \o result
  ELSE [idx \in 1..Len(scores) |-> result[idx]]

AccumulateScores(scores, batch, result) ==
  IF batch = 0 THEN scores \o result
  ELSE [idx \in 1..Len(scores) |-> scores[idx] + result[idx]]

SeenChoices(p) ==
  IF DoStats(p)
    THEN [1..Len(RangeInLayersNames(net.desc, layer_names_)) -> Extrema]
    ELSE {<< >>}

(* One turn of the loop of line 104.                                       *)
ForwardBatch ==
  /\ pc = "forward" /\ i < iterations_
  /\ \E result \in ForwardResults, seen \in SeenChoices(pass) :
       /\ IF DoStats(pass)
            THEN /\ layer_names_' = RangeInLayersNames(net.desc, layer_names_)
                 /\ max_in_' = RangeInLayers(net.desc, layer_names_, max_in_, seen, "in")
                 /\ max_out_' = RangeInLayers(net.desc, layer_names_, max_out_, seen, "out")
                 /\ max_params_' =
                      RangeInLayers(net.desc, layer_names_, max_params_, seen, "params")
            ELSE UNCHANGED stats_vars
       /\ test_score' = AccumulateScores(test_score, i, result)
       /\ results' = Append(results, result)
  /\ i' = i + 1
  /\ engine' = [engine EXCEPT !.forwards = @ + 1,
                              !.range_calls = @ + IF DoStats(pass) THEN 1 ELSE 0]
  /\ UNCHANGED << config_vars, il_vars, test_score_baseline_, bw_vars, pc,
                  runs, fatal_msg, accuracy, net, param, search_vars, pass,
                  evaluated, file_vars >>

(* Line 148: test_score[score_number] / iterations.  With no batch run    *)
(* test_score is empty and the read is out of range.                       *)
AccuracyValues(scores, iterations) ==
  IF score_number < Len(scores)
    THEN {[known |-> TRUE, num |-> scores[score_number + 1], den |-> iterations]}
    ELSE {[known |-> TRUE, num |-> g, den |-> iterations] : g \in IndeterminateInts}

(* Where each call site continues.                                         *)
ReturnTo(p) ==
  CASE p = "baseline"    -> "after_baseline"
    [] p = "conv"        -> "after_conv"
    [] p = "fc"          -> "after_fc"
    [] p = "activations" -> "after_activations"
    [] p = "combined"    -> "after_combined"

(* Lines 133-148, after the loop.                                          *)
FinishForwardBatches ==
  /\ pc = "forward" /\ i >= iterations_
  /\ accuracy' \in AccuracyValues(test_score, iterations_)
  /\ evaluated' = Append(evaluated, pass)
  /\ pc' = ReturnTo(pass)
  /\ UNCHANGED << config_vars, stats_vars, il_vars, test_score_baseline_,
                  bw_vars, runs, fatal_msg, net, param, search_vars,
                  forward_vars, engine, file_vars >>

(* Lines 43-50.                                                            *)
AfterBaseline ==
  /\ pc = "after_baseline"
  /\ test_score_baseline_' = accuracy
  /\ net' = NoNet
  /\ IF trimming_mode_ = "dynamic_fixed_point"
       THEN pc' = "integer_lengths" /\ fatal_msg' = fatal_msg
       ELSE pc' = "fatal" /\ fatal_msg' = "Unknown trimming mode"
  /\ LeaveRunForwardBatches
  /\ UNCHANGED << config_vars, stats_vars, il_vars, bw_vars, runs, accuracy,
                  param, search_vars, evaluated, engine, file_vars >>

----------------------------------------------------------------------------
(* Quantize2DynamicFixedPoint (lines 151-258).                             *)

(* Lines 156-160: one entry per collected layer name is appended to each   *)
(* of the three vectors.                                                   *)
ComputeIntegerLengths ==
  /\ pc = "integer_lengths"
  /\ il_in_' = il_in_ \o
       [k \in 1..Len(layer_names_) |-> IntegerLengthActivation(max_in_[k])]
  /\ il_out_' = il_out_ \o
       [k \in 1..Len(layer_names_) |-> IntegerLengthActivation(max_out_[k])]
  /\ il_params_' = il_params_ \o
       [k \in 1..Len(layer_names_) |-> IntegerLengthParams(max_params_[k])]
  /\ pc' = "conv"
  /\ UNCHANGED << config_vars, stats_vars, test_score_baseline_, bw_vars,
                  runs, fatal_msg, accuracy, net, param, search_vars,
                  forward_vars, evaluated, engine, file_vars >>

(* A candidate: the description is read again, edited, instantiated and    *)
(* handed to RunForwardBatches (lines 168-182, 188-197, 204-213, 225-232). *)
BuildCandidate(p, layers_2_quantize, net_part, bw_conv, bw_fc, bw_in, bw_out) ==
  LET fresh == ReadNetParamsFromTextFileOrDie(model_, param) IN
  /\ \E oob \in OobChoices(fresh, layers_2_quantize) :
       param' = EditNetDescriptionDynamicFixedPoint(
                  fresh, layers_2_quantize, net_part, bw_conv, bw_fc, bw_in,
                  bw_out, oob)
  /\ LoadNet(param')
  /\ EnterRunForwardBatches(p)

(* Lines 168-182.                                                          *)
QuantizeConvParameters ==
  /\ pc = "conv"
  /\ BuildCandidate("conv", "Convolution", "Parameters", bitwidth_weights_,
                    NoBitwidth, NoBitwidth, NoBitwidth)
  /\ UNCHANGED << config_vars, stats_vars, il_vars, test_score_baseline_,
                  bw_vars, runs, fatal_msg, accuracy, search_vars, evaluated,
                  file_vars >>

(* Lines 183-185.                                                          *)
RecordConvParameters ==
  /\ pc = "after_conv"
  /\ test_bw_conv_params' = Append(test_bw_conv_params, bitwidth_weights_)
  /\ test_scores_conv_params' = Append(test_scores_conv_params, accuracy)
  /\ net' = NoNet
  /\ LeaveRunForwardBatches
  /\ pc' = "fc"
  /\ UNCHANGED << config_vars, stats_vars, il_vars, test_score_baseline_,
                  bw_vars, runs, fatal_msg, accuracy, param, test_bw_fc_params,
                  test_scores_fc_params, test_bw_layer_activations,
                  test_scores_layer_activations, evaluated, engine, file_vars >>

(* Lines 188-197.                                                          *)
QuantizeFcParameters ==
  /\ pc = "fc"
  /\ BuildCandidate("fc", "InnerProduct", "Parameters", NoBitwidth,
                    bitwidth_weights_, NoBitwidth, NoBitwidth)
  /\ UNCHANGED << config_vars, stats_vars, il_vars, test_score_baseline_,
                  bw_vars, runs, fatal_msg, accuracy, search_vars, evaluated,
                  file_vars >>

(* Lines 198-200.                                                          *)
RecordFcParameters ==
  /\ pc = "after_fc"
  /\ test_bw_fc_params' = Append(test_bw_fc_params, bitwidth_weights_)
  /\ test_scores_fc_params' = Append(test_scores_fc_params, accuracy)
  /\ net' = NoNet
  /\ LeaveRunForwardBatches
  /\ pc' = "activations"
  /\ UNCHANGED << config_vars, stats_vars, il_vars, test_score_baseline_,
                  bw_vars, runs, fatal_msg, accuracy, param,
                  test_bw_conv_params, test_scores_conv_params,
                  test_bw_layer_activations, test_scores_layer_activations,
                  evaluated, engine, file_vars >>

(* Lines 203-213.                                                          *)
QuantizeActivationsOnly ==
  /\ pc = "activations"
  /\ BuildCandidate("activations", "Convolution_and_InnerProduct",
                    "Activations", NoBitwidth, NoBitwidth,
                    bitwidth_activations_, bitwidth_activations_)
  /\ UNCHANGED << config_vars, stats_vars, il_vars, test_score_baseline_,
                  bw_vars, runs, fatal_msg, accuracy, search_vars, evaluated,
                  file_vars >>

(* Lines 214-216.                                                          *)
RecordActivations ==
  /\ pc = "after_activations"
  /\ test_bw_layer_activations' =
       Append(test_bw_layer_activations, bitwidth_activations_)
  /\ test_scores_layer_activations' =
       Append(test_scores_layer_activations, accuracy)
  /\ net' = NoNet
  /\ LeaveRunForwardBatches
  /\ pc' = "combined"
  /\ UNCHANGED << config_vars, stats_vars, il_vars, test_score_baseline_,
                  bw_vars, runs, fatal_msg, accuracy, param,
                  test_bw_conv_params, test_scores_conv_params,
                  test_bw_fc_params, test_scores_fc_params, evaluated, engine,
                  file_vars >>

(* Lines 218-232: the bit-widths are chosen and the combined candidate is  *)
(* built from them.                                                        *)
QuantizeCombined ==
  /\ pc = "combined"
  /\ bw_conv_params_' = test_bw_conv_params[1]
  /\ bw_fc_params_' = test_bw_fc_params[1]
  /\ bw_out_' = test_bw_layer_activations[1]
  /\ bw_in_' = bw_out_'
  /\ BuildCandidate("combined", "Convolution_and_InnerProduct",
                    "Parameters_and_Activations", bw_conv_params_',
                    bw_fc_params_', bw_in_', bw_out_')
  /\ UNCHANGED << config_vars, stats_vars, il_vars, test_score_baseline_,
                  runs, fatal_msg, accuracy, search_vars, evaluated,
                  file_vars >>

(* Lines 233-258: the combined description is written to model_quantized_, *)
(* the summary is logged and QuantizeNet returns; the locals are gone.     *)
WriteQuantizedModel ==
  /\ pc = "after_combined"
  /\ net' = NoNet
  /\ out_file' = [state |-> "written", content |-> param]
  /\ path_ops' = Append(path_ops, "write")
  /\ param' = << >> /\ accuracy' = NoAccuracy
  /\ test_bw_conv_params' = << >> /\ test_scores_conv_params' = << >>
  /\ test_bw_fc_params' = << >> /\ test_scores_fc_params' = << >>
  /\ test_bw_layer_activations' = << >>
  /\ test_scores_layer_activations' = << >>
  /\ LeaveRunForwardBatches
  /\ pc' = "idle" /\ runs' = runs + 1
  /\ UNCHANGED << config_vars, stats_vars, il_vars, test_score_baseline_,
                  bw_vars, fatal_msg, evaluated, engine >>

(* A read past the end of a vector (line 148 with no batch run, lines 317, *)
(* 323, 329 with no entry for the layer) can also end the process.         *)
OutOfRangeCrash ==
  /\ \/ pc = "forward" /\ i >= iterations_ /\ score_number >= Len(test_score)
     \/ /\ pc \in {"conv", "fc", "activations", "combined"}
        /\ \E k \in 1..Len(ModelFile(model_)) :
             ReadsOutOfRange(ModelFile(model_),
                             IF pc = "conv" THEN "Convolution"
                             ELSE IF pc = "fc" THEN "InnerProduct"
                             ELSE "Convolution_and_InnerProduct", k)
  /\ pc' = "crashed"
  /\ UNCHANGED << config_vars, stats_vars, il_vars, test_score_baseline_,
                  bw_vars, runs, fatal_msg, accuracy, net, param, search_vars,
                  forward_vars, evaluated, engine, file_vars >>

Next ==
  \/ CheckWritePermissions
  \/ LoadReferenceNet
  \/ ForwardBatch
  \/ FinishForwardBatches
  \/ AfterBaseline
  \/ ComputeIntegerLengths
  \/ QuantizeConvParameters
  \/ RecordConvParameters
  \/ QuantizeFcParameters
  \/ RecordFcParameters
  \/ QuantizeActivationsOnly
  \/ RecordActivations
  \/ QuantizeCombined
  \/ WriteQuantizedModel
  \/ OutOfRangeCrash

Spec == Init /\ [][Next]_vars

----------------------------------------------------------------------------
(* Properties.                                                             *)

StageOrder == << "baseline", "conv", "fc", "activations", "combined" >>

AfterEvaluation ==
  {"after_baseline", "after_conv", "after_fc", "after_activations",
   "after_combined"}

(* The candidate that param holds, "none" when it holds none.              *)
Candidate ==
  CASE pc = "forward" /\ pass # "baseline"                 -> pass
    [] pc \in AfterEvaluation \ {"after_baseline"}         -> pass
    [] pc = "fc"                                            -> "conv"
    [] pc = "activations"                                   -> "fc"
    [] pc = "combined"                                      -> "activations"
    [] OTHER                                                -> "none"

(* The integer lengths of this run are in place and its statistics final.  *)
IntegerLengthsComputed ==
  \/ pc \in {"conv", "fc", "activations", "combined"}
  \/ pc \in AfterEvaluation \ {"after_baseline"}
  \/ pc = "forward" /\ pass # "baseline"

(* Entry k of the integer lengths appended by this run.                    *)
OwnLength(il, k) == il[Len(il) - Len(layer_names_) + k]

Known(name) == \E k \in 1..Len(layer_names_) : layer_names_[k] = name

(* ceil(log2(max + eps + 1)), the documented integer length.               *)
DocumentedIntegerLength(max) == CeilLog2(max + Eps + Scale)

(* C1: a run with an unknown trimming mode ends in the fatal error before  *)
(* any computation: in no state of such a run is a network loaded, a       *)
(* forward pass run or a layer statistic collected.                        *)
C1_UnknownModeBeforeComputation ==
  trimming_mode_ # "dynamic_fixed_point" =>
    /\ ~net.loaded
    /\ engine.loads = 0 /\ engine.forwards = 0 /\ engine.range_calls = 0
    /\ layer_names_ = << >>

(* C2: with iterations = 0 no accuracy is ever produced and no             *)
(* RunForwardBatches call ever returns: the run is rejected before.        *)
C2_ZeroIterationsRejected ==
  iterations_ = 0 => (~accuracy.known /\ evaluated = << >>)

(* C3: no fractional length is ever computed for a layer whose name is not *)
(* among the collected layer names: the lookup fails instead of returning. *)
C3_UnknownLayerNotFound ==
  \A k \in 1..Len(param) :
    ~Known(param[k].name) => param[k].quantization_param.has = {}

(* C4: for every layer with recorded statistics, each of the three integer *)
(* lengths computed by this run is ceil(log2(max + 1e-8 + 1)) of its       *)
(* maximum, also for a maximum of 0.                                       *)
C4_IntegerLengthFormula ==
  IntegerLengthsComputed =>
    \A k \in 1..Len(layer_names_) :
      /\ OwnLength(il_in_, k) = DocumentedIntegerLength(max_in_[k])
      /\ OwnLength(il_out_, k) = DocumentedIntegerLength(max_out_[k])
      /\ OwnLength(il_params_, k) = DocumentedIntegerLength(max_params_[k])

(* C5: the output file is written only with the full combined description  *)
(* after the combined candidate was evaluated, and a run that has aborted  *)
(* fatally has performed no operation on the output path.                  *)
C5_NoPartialOutput ==
  /\ out_file.state = "written" =>
       /\ evaluated = StageOrder
       /\ Len(out_file.content) = Len(ModelFile(model_))
  /\ pc = "fatal" => path_ops = << >>

(* The layer types a candidate is meant to quantize.                       *)
CategoryTypes(candidate) ==
  CASE candidate = "conv" -> {"Convolution"}
    [] candidate = "fc"   -> {"InnerProduct"}
    [] OTHER              -> {"Convolution", "InnerProduct"}

(* C6: every candidate description has the layers of the base description, *)
(* same number, names and order, and every layer whose type is not of the  *)
(* candidate's category is as in the base description; so the convolution  *)
(* layers of the fully-connected candidate are unchanged.                  *)
C6_OnlyMatchingLayersEdited ==
  LET base == ModelFile(model_) IN
  Candidate # "none" =>
    /\ Len(param) = Len(base)
    /\ \A k \in 1..Len(base) :
         /\ param[k].name = base[k].name
         /\ base[k].type \notin CategoryTypes(Candidate) => param[k] = base[k]

C6_Witness ==
  /\ Candidate = "fc" /\ model_ = "lenet" /\ runs = 0
  /\ param[1] = ModelFile(model_)[1]
  /\ param[3].type = "FcRistretto"
  /\ "bw_params" \in param[3].quantization_param.has

(* C7: in the combined candidate every convolution and fully-connected     *)
(* layer has bw_params = weight bit-width, bw_layer_in = bw_layer_out =    *)
(* activation bit-width, and each fractional length plus the integer       *)
(* length this run derived for that layer's quantity is the bit-width.     *)
C7_CombinedRoundTrip ==
  LET base == ModelFile(model_) IN
  Candidate = "combined" =>
    \A k \in 1..Len(base) :
      base[k].type \in {"Convolution", "InnerProduct"} =>
        LET q == param[k].quantization_param
            pos == Find(layer_names_, base[k].name) + 1
        IN /\ q.has = {"fl_params", "bw_params", "fl_layer_in", "bw_layer_in",
                       "fl_layer_out", "bw_layer_out"}
           /\ q.bw_params = bitwidth_weights_
           /\ q.bw_layer_in = bitwidth_activations_
           /\ q.bw_layer_out = bitwidth_activations_
           /\ Known(base[k].name)
           /\ q.fl_params + OwnLength(il_params_, pos) = q.bw_params
           /\ q.fl_layer_in + OwnLength(il_in_, pos) = q.bw_layer_in
           /\ q.fl_layer_out + OwnLength(il_out_, pos) = q.bw_layer_out

(* C8: while a run builds its candidates, each lookup returns, for every   *)
(* collected layer, the integer length this run derived from its own       *)
(* statistics, whatever runs came before on the same object.               *)
C8_LookupsOfThisRun ==
  IntegerLengthsComputed =>
    \A k \in 1..Len(layer_names_) :
      /\ GetIntegerLengthParams(layer_names_[k], 0) = OwnLength(il_params_, k)
      /\ GetIntegerLengthIn(layer_names_[k], 0) = OwnLength(il_in_, k)
      /\ GetIntegerLengthOut(layer_names_[k], 0) = OwnLength(il_out_, k)

(* C9: with iterations >= 1 the accuracy a RunForwardBatches call returns  *)
(* is the sum over its batches of the score at position score_number,      *)
(* divided by iterations: the raw score for one batch, and the             *)
(* single-batch score when all batches are identical.                      *)
C9_AccuracyIsMeanOfDesignatedScore ==
  (pc \in AfterEvaluation /\ iterations_ >= 1) =>
    /\ accuracy.known
    /\ accuracy.den = iterations_
    /\ accuracy.num =
         SumSeq([b \in 1..Len(results) |-> results[b][score_number + 1]])
    /\ Len(results) = iterations_
    /\ (\A b \in 1..Len(results) : results[b] = results[1]) =>
         accuracy.num = results[1][score_number + 1] * accuracy.den

C9_Witness ==
  /\ pc = "after_conv" /\ iterations_ = 2
  /\ results = << << 1, 0 >>, << 1, 0 >> >>
  /\ accuracy = [known |-> TRUE, num |-> 2, den |-> 2]

(* The stage of the run: the number of evaluations that have returned,     *)
(* and Done once the output is written.                                    *)
StageNames ==
  << "Idle", "BaselineMeasured", "ConvEvaluated", "FcEvaluated",
     "ActivationsEvaluated", "CombinedEvaluated", "Done" >>

Written == path_ops # << >> /\ path_ops[Len(path_ops)] = "write"

StageIndex == IF Written THEN Len(StageNames) ELSE Len(evaluated) + 1

Stage == StageNames[StageIndex]

StagesInOrder ==
  /\ Len(evaluated) <= Len(StageOrder)
  /\ evaluated = SubSeq(StageOrder, 1, Len(evaluated))
  /\ pc = "forward" => pass = StageOrder[Len(evaluated) + 1]
  /\ Candidate = "conv" => test_score_baseline_.known
  /\ Candidate = "fc" => Len(test_scores_conv_params) = 1
  /\ Candidate = "activations" => Len(test_scores_fc_params) = 1
  /\ Candidate = "combined" => Len(test_scores_layer_activations) = 1
  /\ Written => evaluated = StageOrder
  /\ engine.range_calls =
       IF evaluated = << >> THEN engine.forwards ELSE iterations_

(* A step keeps the stage, moves to the next one, or starts a new run      *)
(* after the previous one is done.                                         *)
StageStep ==
  \/ StageIndex' = StageIndex
  \/ StageIndex' = StageIndex + 1
  \/ Stage = "Done" /\ Stage' = "Idle" /\ pc = "idle"

(* C10: a run passes through Idle, BaselineMeasured, ConvEvaluated,        *)
(* FcEvaluated, ActivationsEvaluated, CombinedEvaluated, Done in that      *)
(* order, each once and never back; a candidate is built and evaluated     *)
(* only when the accuracy of the stage before it is recorded; and layer    *)
(* statistics are collected in the baseline pass only.                     *)
C10_LinearStages == [] StagesInOrder /\ [][StageStep]_vars

C10_Witness ==
  /\ pc = "idle" /\ runs = 1 /\ iterations_ = 2
  /\ evaluated = StageOrder /\ Stage = "Done"
  /\ out_file.state = "written"
  /\ engine.forwards = 10 /\ engine.range_calls = 2

====
